---- MODULE Spec2Model ----
(***************************************************************************)
(* retry-simple: retry(fn, options) of src/src/index.ts as a state machine. *)
(*                                                                         *)
(* One retry() call is modelled.  The async function runs synchronously    *)
(* from one await to the next, so each action is one such stretch: the     *)
(* call itself up to the first await (Start), the continuation after the   *)
(* awaited attempt settles (OpResolves, OpRejects, TimeoutFires) and the   *)
(* continuation after the inter-attempt wait (WaitElapses).  Promises and  *)
(* timers that lost their race stay in the host's event loop and settle    *)
(* or fire later (LateOpSettles, LateTimerFires).                          *)
(*                                                                         *)
(* Time is counted in units of 1/Unit ms, so that the product of a delay   *)
(* with up to MaxRetries jitter factors (tenths) is an exact integer.      *)
(***************************************************************************)
EXTENDS Integers, Sequences, FiniteSets, TLC

VARIABLES
    options,        \* the destructured RetryOptions (index.ts:49-58)
    attempt,        \* let attempt (index.ts:60)
    currentDelay,   \* let currentDelay (index.ts:61)
    waitTime,       \* let waitTime (index.ts:92), live across the await of line 102
    pc,             \* where the async function is suspended
    result,         \* state of the promise retry() returned
    settles,        \* number of times that promise was resolved or rejected
    ops,            \* ops[n]: the promise fn() returned for attempt n
    timers,         \* timers[n]: the timeout timer armed for attempt n
    trace           \* what retry() did, in order

vars == <<options, attempt, currentDelay, waitTime, pc, result, settles,
          ops, timers, trace>>

----------------------------------------------------------------------------
(* Bounds and input sets *)

MaxRetries == 3

Unit == 10 ^ MaxRetries

Ms(n) == n * Unit

\* An optional number: undefined, or a value.
Undefined == [set |-> FALSE, v |-> 0]

Some(x) == [set |-> TRUE, v |-> x]

RetriesValues == (0 - 1) .. MaxRetries

\* The delay options a call is made with: delay, backoff and maxDelay.
DelayOption(d, b, m) == [delay |-> d, backoff |-> b, maxDelay |-> m]

DelayOptions ==
    {DelayOption(Ms(1000), FALSE, Undefined),
     DelayOption(Ms(100), TRUE, Undefined),
     DelayOption(Ms(1000), TRUE, Some(Ms(1500))),
     DelayOption(Ms(100), TRUE, Some(Ms(500))),
     DelayOption(Ms(1000), FALSE, Some(Ms(500))),
     DelayOption(Ms(1000), FALSE, Some(0))}

TimeoutValues == {Undefined, Some(0), Some(Ms(1000))}

\* Math.random() * 0.4 + 0.8, in tenths: the two ends of the range.
JitterFactors == {8, 12}

\* What one call of a caller-supplied hook does.
ShouldRetryOutcomes == {"true", "false", "throw"}

OnRetryOutcomes == {"return", "throw"}

----------------------------------------------------------------------------
(* Values and errors, identified by the attempt that produced them *)

Payload(k, n) == [kind |-> k, att |-> n]

OpValue(n) == Payload("value", n)

OpError(n) == Payload("operror", n)

TimeoutErrorAsExhausted(n) == Payload("Retry attempts exhausted.", n)

TimeoutError(n) == Payload("Operation timed out", n)

ExhaustedError == Payload("Retry attempts exhausted.", 0)

ShouldRetryThrownMasked(n) == Payload("operror", n)

ShouldRetryThrown(n) == Payload("shouldRetry threw", n)

OnRetryThrown(n) == Payload("onRetry threw", n)

NoPayload == Payload("none", 0)

Ev(e, n, x) == [ev |-> e, att |-> n, arg |-> x]

----------------------------------------------------------------------------
(* The pure pieces of retry() *)

\* JavaScript truthiness of an optional number (index.ts:68, index.ts:95).
Truthy(o) == o.set /\ o.v # 0

LoopConditionOffByOne(a, retries) == a < retries

\* while (attempt <= retries)
LoopCondition(a, retries) == a <= retries

IsLastAttemptOffByOne(a, retries) == a >= retries

IsLastAttemptNever(a, retries) == FALSE

\* const isLastAttempt = attempt > retries
IsLastAttempt(a, retries) == a > retries

\* if (backoff) waitTime *= 2
Backoff(w, backoff) == IF backoff THEN 2 * w ELSE w

CapAsFloor(w, maxDelay) == IF Truthy(maxDelay) /\ w < maxDelay.v THEN maxDelay.v ELSE w

\* if (maxDelay && waitTime > maxDelay) waitTime = maxDelay
Cap(w, maxDelay) == IF Truthy(maxDelay) /\ w > maxDelay.v THEN maxDelay.v ELSE w

\* waitTime *= randomFactor, the factor in tenths
Jitter(w, f) == (w \div 10) * f

\* The value of waitTime before the jitter step.
PreJitter(cur, o) == Cap(Backoff(cur, o.backoff), o.maxDelay)

\* timeout ? Promise.race([...]) : await fn()
TimerArmed(timeout) == Truthy(timeout)

\* The outcomes a call of shouldRetry can have: the default is () => true.
ShouldRetryCall(o) == IF o.shouldRetry = "default" THEN {"true"} ELSE ShouldRetryOutcomes

OnRetryCallSkipped(o) == {"skip"}

\* The outcomes of onRetry?.(error, attempt): "skip" when no hook is given.
OnRetryCall(o) == IF o.onRetry = "unset" THEN {"skip"} ELSE OnRetryOutcomes

\* The factors the jitter step can draw: none when jitter is off.
JitterDraw(o) == IF o.jitter THEN JitterFactors ELSE {10}

----------------------------------------------------------------------------
(* Initial state: retry() has been called with some options.  The call   *)
(* without options (retries 3, delay 1000, no backoff, no jitter, no hooks, *)
(* index.ts:50-57) is one of them.                                          *)

Options ==
    {[retries |-> r, delay |-> d.delay, backoff |-> d.backoff, jitter |-> j,
      maxDelay |-> d.maxDelay, timeout |-> t, onRetry |-> cb, shouldRetry |-> sr] :
        r \in RetriesValues, d \in DelayOptions, j \in BOOLEAN,
        t \in TimeoutValues, cb \in {"unset", "set"}, sr \in {"default", "custom"}}

Init ==
    /\ options \in Options
    /\ attempt = 0
    /\ currentDelay = options.delay
    /\ waitTime = 0
    /\ pc = "start"
    /\ result = [state |-> "pending", with |-> NoPayload]
    /\ settles = 0
    /\ ops = <<>>
    /\ timers = <<>>
    /\ trace = <<>>

----------------------------------------------------------------------------
(* Steps of the async function *)

\* return result (index.ts:80)
Return(v, events) ==
    /\ pc' = "done"
    /\ result' = [state |-> "resolved", with |-> v]
    /\ settles' = settles + 1
    /\ trace' = trace \o events \o <<Ev("resolve", attempt, v)>>

ThrowWrapped(e, events) ==
    /\ pc' = "done"
    /\ result' = [state |-> "rejected", with |-> Payload("retry failed", e.att)]
    /\ settles' = settles + 1
    /\ trace' = trace \o events \o <<Ev("reject", attempt, Payload("retry failed", e.att))>>

\* throw out of the async function (index.ts:86, 89, 108, or a hook's throw)
Throw(e, events) ==
    /\ pc' = "done"
    /\ result' = [state |-> "rejected", with |-> e]
    /\ settles' = settles + 1
    /\ trace' = trace \o events \o <<Ev("reject", attempt, e)>>

\* The head of the loop up to the await (index.ts:63-78): test the budget,
\* count the attempt, invoke fn (which returns a promise), arm the timeout
\* timer.
LoopHead(cur, events) ==
    IF LoopCondition(attempt, options.retries)
    THEN    /\ attempt' = attempt + 1
            /\ ops' = Append(ops, "pending")
            /\ timers' = Append(timers,
                   IF TimerArmed(options.timeout) THEN "armed" ELSE "none")
            /\ trace' = trace \o events \o
                   <<Ev("fn", attempt + 1, NoPayload)>> \o
                   (IF TimerArmed(options.timeout)
                    THEN <<Ev("arm", attempt + 1, NoPayload)>> ELSE <<>>)
            /\ pc' = "await"
            /\ currentDelay' = cur
            /\ UNCHANGED <<options, waitTime, result, settles>>
    ELSE /\ Throw(ExhaustedError, events)
         /\ currentDelay' = cur
         /\ UNCHANGED <<options, attempt, waitTime, ops, timers>>

CatchBlockNotifiesFirst(error, events) ==
    LET told == events \o <<Ev("fail", attempt, error),
                            Ev("onRetry", attempt, error),
                            Ev("onRetryReturned", attempt, error)>>
        w == PreJitter(currentDelay, options)
    IN IF IsLastAttempt(attempt, options.retries)
       THEN Throw(error, told) /\ UNCHANGED waitTime
       ELSE /\ waitTime' = w
            /\ pc' = "wait"
            /\ trace' = trace \o told \o
                  <<Ev("wait", attempt, [pre |-> w, wait |-> w])>>
            /\ UNCHANGED <<result, settles>>

\* The catch block up to the await of the wait (index.ts:81-102).
CatchBlock(error, events) ==
    LET failed == events \o <<Ev("fail", attempt, error)>> IN
    IF IsLastAttempt(attempt, options.retries)
    THEN Throw(error, failed) /\ UNCHANGED waitTime
    ELSE \E sr \in ShouldRetryCall(options) :
         LET asked == failed \o <<Ev("shouldRetry", attempt, error)>> IN
         IF sr = "throw"
         THEN Throw(ShouldRetryThrown(attempt),
                    asked \o <<Ev("shouldRetryThrew", attempt, NoPayload)>>)
              /\ UNCHANGED waitTime
         ELSE IF sr = "false"
         THEN Throw(error, asked \o <<Ev("declined", attempt, error)>>)
              /\ UNCHANGED waitTime
         ELSE \E cb \in OnRetryCall(options) :
              LET told == IF cb = "skip" THEN asked
                          ELSE asked \o <<Ev("onRetry", attempt, error)>> IN
              IF cb = "throw"
              THEN Throw(OnRetryThrown(attempt),
                         told \o <<Ev("onRetryThrew", attempt, NoPayload)>>)
                   /\ UNCHANGED waitTime
              ELSE \E f \in JitterDraw(options) :
                   LET pre == PreJitter(currentDelay, options)
                       w == IF options.jitter THEN Jitter(pre, f) ELSE pre
                   IN /\ waitTime' = w
                      /\ pc' = "wait"
                      /\ trace' = trace \o told \o
                            (IF cb = "skip" THEN <<>>
                             ELSE <<Ev("onRetryReturned", attempt, error)>>) \o
                            <<Ev("wait", attempt, [pre |-> pre, wait |-> w])>>
                      /\ UNCHANGED <<result, settles>>

----------------------------------------------------------------------------
(* Actions *)

\* retry(fn, options) is called and runs to its first await.
Start ==
    /\ pc = "start"
    /\ LoopHead(currentDelay, <<>>)

\* The awaited attempt's operation resolves first.
OpResolves ==
    /\ pc = "await"
    /\ ops[attempt] = "pending"
    /\ ops' = [ops EXCEPT ![attempt] = "resolved"]
    /\ Return(OpValue(attempt), <<>>)
    /\ UNCHANGED <<options, attempt, currentDelay, waitTime, timers>>

OpRejectsBeforeSettling ==
    /\ pc = "await"
    /\ ops[attempt] = "pending"
    /\ CatchBlock(OpError(attempt), <<>>)
    /\ UNCHANGED <<options, attempt, currentDelay, ops, timers>>

\* The awaited attempt's operation rejects first.
OpRejects ==
    /\ pc = "await"
    /\ ops[attempt] = "pending"
    /\ ops' = [ops EXCEPT ![attempt] = "rejected"]
    /\ CatchBlock(OpError(attempt), <<>>)
    /\ UNCHANGED <<options, attempt, currentDelay, timers>>

\* Timers armed with the same timeout fire in the order they were armed.
EarlierTimersFired(n) == \A m \in 1 .. n - 1 : timers[m] # "armed"

\* The awaited attempt's timer fires first.
TimeoutFires ==
    /\ pc = "await"
    /\ timers[attempt] = "armed"
    /\ EarlierTimersFired(attempt)
    /\ timers' = [timers EXCEPT ![attempt] = "fired"]
    /\ CatchBlock(TimeoutError(attempt), <<Ev("timeout", attempt, NoPayload)>>)
    /\ UNCHANGED <<options, attempt, currentDelay, ops>>

WaitNotAwaited ==
    /\ pc = "wait"
    /\ LoopHead(waitTime, <<>>)

WaitNeverElapses ==
    /\ pc = "wait"
    /\ FALSE
    /\ UNCHANGED vars

\* The wait's timer fires: carry the delay forward and loop (index.ts:102-104, 63).
WaitElapses ==
    /\ pc = "wait"
    /\ LoopHead(waitTime, <<Ev("waited", attempt, NoPayload)>>)

LateOpSettlesFailsAwaited ==
    \E n \in DOMAIN ops :
        /\ n < attempt /\ pc = "await"
        /\ ops[n] = "pending"
        /\ ops' = [ops EXCEPT ![n] = "settled"]
        /\ CatchBlock(OpError(n), <<>>)
        /\ UNCHANGED <<options, attempt, currentDelay, timers>>

\* An operation whose attempt was already decided by its timer settles.
\* Promise.race has settled, so a resolution and a rejection of the loser
\* have the same (absent) effect and are recorded alike.
LateOpSettles ==
    \E n \in DOMAIN ops :
        /\ n < attempt \/ pc # "await"
        /\ ops[n] = "pending"
        /\ ops' = [ops EXCEPT ![n] = "settled"]
        /\ UNCHANGED <<options, attempt, currentDelay, waitTime, pc, result,
                       settles, timers, trace>>

\* A timer whose attempt was already decided by its operation fires.
LateTimerFires ==
    \E n \in DOMAIN timers :
        /\ n < attempt \/ pc # "await"
        /\ timers[n] = "armed"
        /\ EarlierTimersFired(n)
        /\ timers' = [timers EXCEPT ![n] = "fired"]
        /\ UNCHANGED <<options, attempt, currentDelay, waitTime, pc, result,
                       settles, ops, trace>>

Next ==
    \/ Start
    \/ OpResolves
    \/ OpRejects
    \/ TimeoutFires
    \/ WaitElapses
    \/ LateOpSettles
    \/ LateTimerFires

Spec == Init /\ [][Next]_vars

\* Termination does not depend on the lengths of the waits: the fair
\* specification fixes the delay options and keeps every other option free.
LiveInit ==
    /\ Init
    /\ options.delay = Ms(1000)
    /\ ~options.backoff
    /\ ~options.jitter
    /\ ~options.maxDelay.set

\* The host runs every ready continuation and fires every armed timer.  An
\* operation is only required to settle when no timer is armed for its
\* attempt: with a timer the attempt is decided whether or not it settles.
Fairness ==
    /\ WF_vars(Start)
    /\ WF_vars(WaitElapses)
    /\ WF_vars(TimeoutFires)
    /\ WF_vars(LateTimerFires)
    /\ WF_vars(~TimerArmed(options.timeout) /\ (OpResolves \/ OpRejects))

LiveSpec == LiveInit /\ [][Next]_vars /\ Fairness

TypeOK ==
    /\ options \in Options
    /\ attempt \in 0 .. MaxRetries + 1
    /\ pc \in {"start", "await", "wait", "done"}
    /\ settles \in 0 .. 1
    /\ Len(ops) = attempt
    /\ Len(timers) = attempt

----------------------------------------------------------------------------
(* What a run shows *)

Events(e) == SelectSeq(trace, LAMBDA x : x.ev = e)

FnCalls == Len(Events("fn"))

Fails == Events("fail")

OnRetryCalls == Events("onRetry")

Waits == Events("wait")

Settled == pc = "done"

Rejected == Settled /\ result.state = "rejected"

Resolved == Settled /\ result.state = "resolved"

HookThrew == result.with.kind \in {"shouldRetry threw", "onRetry threw"}

\* Every call shouldRetry(error, 1) this run made returned false.
ShouldRetryFalseAt1 ==
    /\ options.shouldRetry = "custom"
    /\ \A i \in DOMAIN trace :
          (trace[i].ev = "shouldRetry" /\ trace[i].att = 1)
              => (i < Len(trace) /\ trace[i + 1].ev = "declined")

----------------------------------------------------------------------------
(* Claims *)

\* C1: with retries = R >= 0, the default shouldRetry and an onRetry that
\* does not throw, an operation failing on every attempt has been invoked
\* exactly R + 1 times when retry() rejects, and retry() rejects with the
\* error of attempt R + 1.
C1_AllFailInvokesRPlus1 ==
    (/\ Rejected
     /\ options.retries >= 0
     /\ options.shouldRetry = "default"
     /\ result.with.kind # "onRetry threw")
    => /\ FnCalls = options.retries + 1
       /\ Len(Fails) = options.retries + 1
       /\ Fails[Len(Fails)].att = options.retries + 1
       /\ result.with = Fails[Len(Fails)].arg

C1_Witness ==
    /\ Rejected
    /\ options.retries = 3
    /\ options.shouldRetry = "default"
    /\ options.onRetry = "set"
    /\ FnCalls = 4
    /\ result.with = OpError(4)

\* C2: with retries = R >= 0, when the operation fails on attempts 1..k-1
\* and succeeds on attempt k <= R + 1, retry() resolves with attempt k's
\* value, fn was invoked exactly k times, onRetry was invoked exactly k-1
\* times with attempt numbers 1..k-1 in order, k-1 waits were made, and
\* nothing but the resolution follows the successful attempt's invocation.
C2_SuccessShortCircuits ==
    (Resolved /\ options.retries >= 0)
    => LET k == result.with.att
           called == OnRetryCalls
           lastFn == CHOOSE i \in DOMAIN trace :
                        trace[i].ev = "fn" /\ trace[i].att = k
       IN /\ result.with = OpValue(k)
          /\ k \in 1 .. options.retries + 1
          /\ FnCalls = k
          /\ Len(Fails) = k - 1
          /\ \A i \in 1 .. k - 1 : Fails[i].att = i
          /\ Len(called) = IF options.onRetry = "set" THEN k - 1 ELSE 0
          /\ \A i \in DOMAIN called :
                called[i].att = i /\ called[i].arg = Fails[i].arg
          /\ Len(Waits) = k - 1
          /\ \A i \in (lastFn + 1) .. Len(trace) :
                trace[i].ev \in {"arm", "resolve"}

C2_Witness ==
    /\ Resolved
    /\ options.retries = 3
    /\ options.onRetry = "set"
    /\ result.with = OpValue(3)
    /\ Len(OnRetryCalls) = 2

\* C3 (as claimed): for every configuration, when the operation fails on
\* every attempt and shouldRetry returns false for attempt 1, fn is invoked
\* exactly once, retry() rejects with that attempt's error, and there is no
\* wait and no onRetry call.
C3_DeclinedAtFirstAttempt ==
    (Rejected /\ ~HookThrew /\ ShouldRetryFalseAt1)
    => /\ FnCalls = 1
       /\ Len(Fails) = 1
       /\ result.with = Fails[1].arg
       /\ Len(Waits) = 0
       /\ Len(OnRetryCalls) = 0

\* C4 (as claimed): with delay = 100, backoff on, jitter off, no maxDelay
\* and retries = 3, the successive waits are 100, 200, 400.
C4_BackoffSequence ==
    (/\ options.delay = Ms(100)
     /\ options.backoff
     /\ ~options.jitter
     /\ ~options.maxDelay.set
     /\ options.retries = 3)
    => \A i \in DOMAIN Waits : Waits[i].arg.wait = Ms(100) * (2 ^ (i - 1))

\* C5: with a positive maxDelay the pre-jitter delay of every retry is at
\* most maxDelay, and without jitter every wait is at most maxDelay, also
\* when delay exceeds maxDelay and backoff is off; with delay = 1000,
\* backoff on and maxDelay = 1500 the second retry's pre-jitter delay is 1500.
C5_CapBoundsPreJitter ==
    (options.maxDelay.set /\ options.maxDelay.v > 0)
    => /\ \A i \in DOMAIN Waits :
             /\ Waits[i].arg.pre <= options.maxDelay.v
             /\ ~options.jitter => Waits[i].arg.wait <= options.maxDelay.v
       /\ (/\ options.delay = Ms(1000)
           /\ options.backoff
           /\ options.maxDelay.v = Ms(1500)
           /\ Len(Waits) >= 2)
          => Waits[2].arg.pre = Ms(1500)

C5_Witness ==
    /\ options.delay = Ms(1000)
    /\ options.backoff
    /\ options.jitter
    /\ options.maxDelay = Some(Ms(1500))
    /\ Len(Waits) >= 2
    /\ Waits[2].arg.pre = Ms(1500)
    /\ Waits[2].arg.wait > Ms(1500)

\* C6 (as claimed): with jitter on, every wait lies between 0.8 and 1.2
\* times its pre-jitter value, and when maxDelay is given no wait exceeds
\* 1.2 * maxDelay.
C6_JitterBounds ==
    options.jitter
    => \A i \in DOMAIN Waits :
          LET pre == Waits[i].arg.pre
              w == Waits[i].arg.wait
          IN /\ (pre \div 5) * 4 <= w
             /\ w <= (pre \div 5) * 6
             /\ options.maxDelay.set => w <= (options.maxDelay.v \div 5) * 6

\* C7: with a positive timeout, an attempt decided by its timer fails with
\* the error "Operation timed out"; the failure is handled like any other:
\* it is one of at most retries + 1 attempts, it is the error shouldRetry
\* and onRetry receive, and on attempt retries + 1 it is the error retry()
\* rejects with.  Without a positive timeout no attempt times out.
C7_TimeoutCountsAsFailure ==
    /\ FnCalls <= (IF options.retries >= 0 THEN options.retries + 1 ELSE 0)
    /\ \A i \in DOMAIN trace :
          trace[i].ev = "timeout"
          => LET n == trace[i].att
                 e == [kind |-> "Operation timed out", att |-> n]
             IN /\ options.timeout.set /\ options.timeout.v > 0
                /\ trace[i + 1] = Ev("fail", n, e)
                /\ trace[i + 2] = IF n > options.retries
                                  THEN Ev("reject", n, e)
                                  ELSE Ev("shouldRetry", n, e)
                /\ \A j \in DOMAIN trace :
                      (trace[j].ev = "onRetry" /\ trace[j].att = n)
                          => (j > i /\ trace[j].arg = e)

C7_Witness ==
    /\ Rejected
    /\ options.retries = 2
    /\ options.onRetry = "set"
    /\ options.shouldRetry = "custom"
    /\ Len(Events("timeout")) = 3
    /\ Len(OnRetryCalls) = 2
    /\ result.with = [kind |-> "Operation timed out", att |-> 3]

\* C8 (as claimed): once an attempt's race is decided no timer armed for
\* that attempt is pending: a pending timeout timer belongs to the attempt
\* being awaited.
C8_NoTimerOutlivesAttempt ==
    \A n \in DOMAIN timers :
        timers[n] = "armed" => (pc = "await" /\ n = attempt)

\* C9: attempts are strictly ordered.  Of the invocations of fn, the
\* failures, the onRetry calls and returns, and the starts and ends of the
\* waits, each is directly preceded by the one the order requires: fn is
\* invoked for attempts 1, 2, ... in turn, and for attempt N+1 only after
\* the wait of attempt N has elapsed; that wait started after onRetry(error,
\* N) (when given) returned, which was invoked after attempt N failed.
C9_AttemptsStrictlyOrdered ==
    LET steps == SelectSeq(trace, LAMBDA x : x.ev \in
                    {"fn", "fail", "onRetry", "onRetryReturned", "wait", "waited"})
        prev(i, e, n) == i > 1 /\ steps[i - 1].ev = e /\ steps[i - 1].att = n
    IN \A i \in DOMAIN steps :
          LET n == steps[i].att
              e == steps[i].ev
          IN /\ e = "fn" => IF n = 1 THEN i = 1 ELSE prev(i, "waited", n - 1)
             /\ e = "fail" => prev(i, "fn", n)
             /\ e = "onRetry" => prev(i, "fail", n)
             /\ e = "onRetryReturned" => prev(i, "onRetry", n)
             /\ e = "wait" =>
                   IF options.onRetry = "set"
                   THEN prev(i, "onRetryReturned", n)
                   ELSE prev(i, "fail", n)
             /\ e = "waited" => prev(i, "wait", n)

C9_Witness ==
    /\ pc = "await"
    /\ attempt = 3
    /\ options.onRetry = "set"
    /\ options.jitter
    /\ Len(Events("timeout")) = 1
    /\ Len(Events("waited")) = 2

\* C10: every retry() call settles exactly once.  The promise is settled
\* exactly when the function has finished, it is never settled a second
\* time nor changed once settled, and when every attempt is eventually
\* decided and every wait elapses it is eventually resolved or rejected.
C10_SettlesExactlyOnce ==
    /\ [](/\ settles <= 1
          /\ settles = 1 <=> result.state \in {"resolved", "rejected"}
          /\ settles = 1 <=> pc = "done")
    /\ [][result.state # "pending" => (result' = result /\ settles' = settles)]_vars
    /\ <>(pc = "done" /\ settles = 1)

C10_Witness ==
    /\ pc = "done"
    /\ settles = 1
    /\ result.state = "rejected"
    /\ options.retries = 3
    /\ FnCalls = 4
    /\ Len(Events("timeout")) = 2
    /\ Len(Events("waited")) = 3

\* C11 (as claimed): with negative retries retry() behaves as with
\* retries = 0: fn is invoked exactly once, there is no wait and no onRetry
\* call, and retry() settles with that attempt's value or error.
C11_NegativeRetriesSingleAttempt ==
    (Settled /\ options.retries < 0)
    => /\ FnCalls = 1
       /\ Len(Waits) = 0
       /\ Len(OnRetryCalls) = 0
       /\ result.with.att = 1
       /\ result.with.kind \in {"value", "operror", "Operation timed out"}

\* C12: "Retry attempts exhausted." is never the outcome of retry() when
\* retries >= 0, whatever the operation and the hooks do; it is the outcome
\* only when retries < 0, and then fn was never invoked.
C12_ExhaustedOnlyWhenNegative ==
    (Settled /\ result.with.kind = "Retry attempts exhausted.")
    => /\ options.retries < 0
       /\ result.state = "rejected"
       /\ FnCalls = 0
       /\ Len(trace) = 1

C12_Witness ==
    /\ Rejected
    /\ options.retries < 0
    /\ options.shouldRetry = "custom"
    /\ options.onRetry = "set"
    /\ TimerArmed(options.timeout)
    /\ result.with.kind = "Retry attempts exhausted."
    /\ FnCalls = 0

\* C13: losers of an attempt's race are discarded.  A step in which the
\* operation of an already decided attempt settles, or the timer of an
\* already decided attempt fires, changes nothing else: not the recorded
\* outcome of any attempt, not the attempt being awaited, not the delay
\* carried forward, and not what retry() settles with.
C13_RaceLosersDiscarded ==
    [][(\E n \in DOMAIN ops :
           /\ n < attempt \/ pc # "await"
           /\ ops'[n] # ops[n] \/ timers'[n] # timers[n])
       => UNCHANGED <<attempt, currentDelay, waitTime, pc, result, settles, trace>>]_vars

C13_Witness ==
    /\ Resolved
    /\ result.with = OpValue(3)
    /\ ops = <<"settled", "rejected", "resolved">>
    /\ timers = <<"fired", "fired", "armed">>
    /\ Fails[1].arg = TimeoutError(1)
    /\ Fails[2].arg = OpError(2)

\* C14: errors are passed through unmodified.  The error of failed attempt
\* N is the rejection of attempt N's operation or attempt N's timeout error;
\* shouldRetry(error, N) and onRetry(error, N) receive exactly that error;
\* and when retry() rejects because the attempt is not retried, it rejects
\* with exactly the error of the attempt that just failed.
C14_ErrorsPassedThrough ==
    LET fails == Fails IN
    /\ \A n \in DOMAIN fails :
          /\ fails[n].att = n
          /\ fails[n].arg \in {[kind |-> "operror", att |-> n],
                               [kind |-> "Operation timed out", att |-> n]}
    /\ \A i \in DOMAIN trace :
          trace[i].ev \in {"shouldRetry", "onRetry", "declined"}
          => /\ trace[i].att \in DOMAIN fails
             /\ trace[i].arg = fails[trace[i].att].arg
    /\ (Rejected /\ ~HookThrew /\ result.with.kind # "Retry attempts exhausted.")
       => /\ attempt \in DOMAIN fails
          /\ Len(fails) = attempt
          /\ result.with = fails[attempt].arg
          /\ trace[Len(trace)].arg = fails[attempt].arg

C14_Witness ==
    /\ Rejected
    /\ options.onRetry = "set"
    /\ Len(Fails) = 2
    /\ Fails[1].arg = TimeoutError(1)
    /\ Len(OnRetryCalls) = 1
    /\ OnRetryCalls[1].arg = TimeoutError(1)
    /\ Len(Events("declined")) = 1
    /\ result.with = OpError(2)

\* C15 (as claimed): the delay is a fold over the retries.  The carried
\* delay starts at options.delay; each wait is the carried delay, doubled
\* when backoff is on, then clamped to maxDelay when maxDelay is given, then
\* multiplied by a jitter factor between 0.8 and 1.2 when jitter is on; that
\* wait is the carried delay of the next retry.  There is one delay
\* computation per retried attempt and none for the attempt retry() settles
\* on.
C15_DelayIsAFold ==
    LET waits == Waits IN
    /\ \A i \in DOMAIN waits :
          LET carried == IF i = 1 THEN options.delay ELSE waits[i - 1].arg.wait
              doubled == IF options.backoff THEN 2 * carried ELSE carried
              clamped == IF options.maxDelay.set /\ doubled > options.maxDelay.v
                         THEN options.maxDelay.v ELSE doubled
              w == waits[i].arg.wait
          IN /\ waits[i].att = i
             /\ waits[i].arg.pre = clamped
             /\ IF options.jitter
                THEN (clamped \div 5) * 4 <= w /\ w <= (clamped \div 5) * 6
                ELSE w = clamped
    /\ pc = "wait" => waitTime = waits[Len(waits)].arg.wait
    /\ pc \in {"await", "done"} =>
          /\ currentDelay = IF waits = <<>> THEN options.delay
                            ELSE waits[Len(waits)].arg.wait
          /\ Len(waits) = (IF FnCalls = 0 THEN 0 ELSE FnCalls - 1)

\* C16: when shouldRetry or onRetry throws while handling failed attempt N,
\* retry() rejects with the thrown error, not with the attempt's error, and
\* nothing follows the throw: no invocation of fn, no wait, no hook call.
C16_HookThrowPropagates ==
    \A i \in DOMAIN trace :
        trace[i].ev \in {"shouldRetryThrew", "onRetryThrew"}
        => LET n == trace[i].att
               thrown == [kind |-> IF trace[i].ev = "shouldRetryThrew"
                                   THEN "shouldRetry threw" ELSE "onRetry threw",
                          att |-> n]
           IN /\ trace[i - 1].ev = (IF trace[i].ev = "shouldRetryThrew"
                                    THEN "shouldRetry" ELSE "onRetry")
              /\ trace[i - 1].att = n
              /\ trace[i - 1].arg # thrown
              /\ Len(trace) = i + 1
              /\ trace[i + 1] = Ev("reject", n, thrown)
              /\ pc = "done"
              /\ result = [state |-> "rejected", with |-> thrown]
              /\ FnCalls = n

C16_Witness ==
    /\ Rejected
    /\ options.retries = 3
    /\ FnCalls = 2
    /\ Len(Waits) = 1
    /\ Len(Events("shouldRetry")) = 2
    /\ Len(Events("shouldRetryThrew")) = 1
    /\ result.with = ShouldRetryThrown(2)

\* C17: onRetry and the wait happen exactly once per failed-but-retried
\* attempt.  With retries >= 0 and hooks that do not throw, when retry() has
\* settled the number of waits, and of onRetry calls when the hook is given,
\* is the number of invocations of fn minus one, one for each attempt before
\* the last, and the attempt retry() settled on has neither.
C17_OncePerRetriedAttempt ==
    (Settled /\ options.retries >= 0 /\ ~HookThrew)
    => LET waits == Waits
           called == OnRetryCalls
       IN /\ FnCalls = attempt
          /\ Len(waits) = FnCalls - 1
          /\ \A i \in DOMAIN waits : waits[i].att = i
          /\ Len(called) = (IF options.onRetry = "set" THEN FnCalls - 1 ELSE 0)
          /\ \A i \in DOMAIN called : called[i].att = i
          /\ Len(Events("waited")) = FnCalls - 1

C17_Witness ==
    /\ Rejected
    /\ options.retries = 3
    /\ options.onRetry = "set"
    /\ FnCalls = 3
    /\ Len(OnRetryCalls) = 2
    /\ Len(Waits) = 2
    /\ Len(Events("declined")) = 1

\* C18: shouldRetry is consulted exactly once for each failed attempt whose
\* number is at most retries, with that attempt's number, and never for a
\* successful attempt nor for attempt retries + 1: there the budget check
\* alone propagates the error.
C18_ShouldRetryWithinBudget ==
    LET asked == Events("shouldRetry")
        fails == Fails
        budget == IF options.retries >= 0 THEN options.retries ELSE 0
    IN /\ Len(asked) = (IF Len(fails) <= budget THEN Len(fails) ELSE budget)
       /\ \A i \in DOMAIN asked :
             /\ asked[i].att = i
             /\ i <= options.retries
             /\ fails[i].att = i
       /\ (Rejected /\ options.retries >= 0 /\ Len(fails) = options.retries + 1)
          => /\ trace[Len(trace) - 1].ev = "fail"
             /\ trace[Len(trace)].ev = "reject"

C18_Witness ==
    /\ Rejected
    /\ options.retries = 2
    /\ options.shouldRetry = "custom"
    /\ Len(Fails) = 3
    /\ Len(Events("shouldRetry")) = 2
    /\ result.with = OpError(3)

\* C19: a duration the caller provides counts as set even when it is 0: a
\* provided timeout (0 included) arms a fresh timer for every attempt, and
\* maxDelay = 0 clamps every pre-jitter wait to 0.
C19_ProvidedZeroCountsAsSet ==
    /\ options.timeout.set
       => /\ Len(timers) = attempt
          /\ \A n \in DOMAIN timers : timers[n] # "none"
    /\ options.maxDelay = Some(0)
       => \A i \in DOMAIN trace :
             trace[i].ev = "wait" => trace[i].arg.pre = 0

\* C20 as stated: at most one invocation of the operation is pending at any
\* time, also after an attempt was ended by its timeout.
C20_AtMostOnePending ==
    /\ Cardinality({n \in DOMAIN ops : ops[n] = "pending"}) <= 1
    /\ \A n \in DOMAIN ops : ops[n] = "pending" => n = attempt

\* C20 amended: an invocation that is still pending is either the one being
\* awaited, or belongs to an attempt that was ended by its timeout; fn is
\* invoked for attempt N+1 only after attempt N's promise settled or attempt
\* N's timer fired first.
C20_PendingOnlyAwaitedOrTimedOut ==
    LET fails == Fails IN
    /\ Len(ops) = attempt
    /\ \A n \in DOMAIN ops :
          ops[n] = "pending"
          => \/ n = attempt /\ pc = "await"
             \/ /\ timers[n] = "fired"
                /\ n \in DOMAIN fails
                /\ fails[n].arg = TimeoutError(n)
    /\ \A n \in DOMAIN ops :
          (n < attempt /\ n \in DOMAIN fails /\ fails[n].arg = OpError(n))
          => ops[n] = "rejected"

C20_Witness ==
    /\ pc = "await"
    /\ attempt = 3
    /\ ops = <<"pending", "rejected", "pending">>
    /\ timers = <<"fired", "armed", "armed">>
    /\ Fails[1].arg = TimeoutError(1)
    /\ Fails[2].arg = OpError(2)

====
